---- MODULE Spec2Model ----
(***************************************************************************)
(* posterust: threshold bucketing and colour mapping of src/lib.rs.        *)
(* The state machine follows `run`: the boundary sequence and the colour   *)
(* mapping are built once from the options, then every input file is       *)
(* opened, its pixels are remapped and the result is saved.                *)
(***************************************************************************)
EXTENDS Integers, Sequences, FiniteSets, TLC

VARIABLES opt, pc, luma_vec, temp_luma_vec, generated_colors,
          result, error, stderr, file_idx, imgbuf, outbuf, luma, color_key,
          opened, saved, failed

vars == <<opt, pc, luma_vec, temp_luma_vec, generated_colors,
          result, error, stderr, file_idx, imgbuf, outbuf, luma, color_key,
          opened, saved, failed>>

----------------------------------------------------------------------------
(* Bounds of the model.                                                    *)

MaxFiles == 2

MaxPixels == 1

(* Program constants.                                                      *)

BUCKET == 23

LEN == 11

MaxValues == 11

MinValues == 2

U8 == 256

----------------------------------------------------------------------------
(* Helpers for Vec<u8>, Option and Result.                                 *)

Range(s) == {s[i] : i \in DOMAIN s}

IsAscending(s) == \A i \in 1..(Len(s) - 1) : s[i] <= s[i + 1]

SetMax(S) == CHOOSE x \in S : \A y \in S : y <= x

SetMin(S) == CHOOSE x \in S : \A y \in S : x <= y

Mul8(a, b) == (a * b) % U8

OkVec(v) == [ok |-> TRUE, val |-> v]

PanicVec == [ok |-> FALSE, val |-> <<>>]

(* Vec::sort on u8 *)
SortLevels(s) == SortSeq(s, LAMBDA a, b : a < b)

(* Vec::dedup: drops every element equal to its predecessor *)
RECURSIVE Dedup(_)
Dedup(s) ==
    IF Len(s) <= 1 THEN s
    ELSE LET front == Dedup(SubSeq(s, 1, Len(s) - 1))
         IN IF s[Len(s)] = s[Len(s) - 1] THEN front
            ELSE Append(front, s[Len(s)])

----------------------------------------------------------------------------
(* Threshold builders.                                                     *)

(* luma_threshold dividing 256 instead of 255 *)
luma_threshold_256(num) ==
    IF num = 0 THEN PanicVec
    ELSE LET step == 256 \div num
         IN OkVec([i \in 1..num |-> Mul8(i - 1, step)])

(* fn luma_threshold: `255 / num` panics when num is 0 *)
luma_threshold(num) ==
    IF num = 0 THEN PanicVec
    ELSE LET step == 255 \div num
         IN OkVec([i \in 1..num |-> Mul8(i - 1, step)])

(* the clamping loop, sort and dedup of luma_threshold_custom *)
ClampLevels(values) ==
    Dedup(SortLevels([i \in DOMAIN values |->
                        IF values[i] < 11 THEN values[i] ELSE 10]))

(* the expansion loop stepping one slot late: `n == next` *)
RECURSIVE CustomLoopLate(_, _, _, _, _)
CustomLoopLate(levels, n, counter, next, arr) ==
    IF n = LEN THEN OkVec(arr)
    ELSE IF counter + 1 > Len(levels) THEN PanicVec
    ELSE LET item == Mul8(levels[counter + 1], BUCKET)
             hit == (n = next)
             counter2 == IF hit THEN counter + 1 ELSE counter
             next2 == IF hit /\ counter2 < Len(levels) - 1
                      THEN levels[counter2 + 2] ELSE next
         IN CustomLoopLate(levels, n + 1, counter2, next2, Append(arr, item))

(* the expansion loop of luma_threshold_custom, from slot n on; arr holds   *)
(* the slots already written                                               *)
RECURSIVE CustomLoop(_, _, _, _, _)
CustomLoop(levels, n, counter, next, arr) ==
    IF n = LEN THEN OkVec(arr)
    ELSE IF counter + 1 > Len(levels) THEN PanicVec
    ELSE LET item == Mul8(levels[counter + 1], BUCKET)
             hit == (n + 1 = next)
             counter2 == IF hit THEN counter + 1 ELSE counter
             next2 == IF hit /\ counter2 < Len(levels) - 1
                      THEN levels[counter2 + 2] ELSE next
         IN CustomLoop(levels, n + 1, counter2, next2, Append(arr, item))

(* fn luma_threshold_custom: `levels.get(1).unwrap()` panics when fewer    *)
(* than two distinct levels remain                                         *)
luma_threshold_custom(values) ==
    LET levels == ClampLevels(values)
    IN IF Len(levels) < 2 THEN PanicVec
       ELSE CustomLoop(levels, 0, 0, levels[2], <<>>)

(* the keep loop never updating curr: every value that differs from the    *)
(* first one counts as a new group                                         *)
RECURSIVE KeepLoopFromFirst(_, _, _, _, _, _)
KeepLoopFromFirst(vec, i, step, counter, curr, ret) ==
    IF i > Len(vec) THEN ret
    ELSE LET changed == vec[i] # curr
             counter2 == IF changed THEN (counter + 1) % U8 ELSE counter
         IN KeepLoopFromFirst(vec, i + 1, step, counter2, curr,
                              Append(ret, Mul8(counter2, step)))

(* the loop of luma_threshold_keep over vec[i..], ret holds the output so  *)
(* far                                                                     *)
RECURSIVE KeepLoop(_, _, _, _, _, _)
KeepLoop(vec, i, step, counter, curr, ret) ==
    IF i > Len(vec) THEN ret
    ELSE LET changed == vec[i] # curr
             counter2 == IF changed THEN (counter + 1) % U8 ELSE counter
             curr2 == IF changed THEN vec[i] ELSE curr
         IN KeepLoop(vec, i + 1, step, counter2, curr2,
                     Append(ret, Mul8(counter2, step)))

(* fn luma_threshold_keep *)
luma_threshold_keep(vec, num) ==
    IF num = 0 \/ Len(vec) = 0 THEN PanicVec
    ELSE OkVec(KeepLoop(vec, 1, 255 \div num, 0, vec[1], <<>>))

----------------------------------------------------------------------------
(* Colours.  A colour string is a sequence of one-character strings.       *)

HexDigits == <<"0", "1", "2", "3", "4", "5", "6", "7", "8", "9",
               "a", "b", "c", "d", "e", "f">>

HexUpper == <<"A", "B", "C", "D", "E", "F">>

IsHex(ch) ==
    \/ \E i \in DOMAIN HexDigits : HexDigits[i] = ch
    \/ \E i \in DOMAIN HexUpper : HexUpper[i] = ch

HexVal(ch) ==
    IF \E i \in DOMAIN HexDigits : HexDigits[i] = ch
    THEN (CHOOSE i \in DOMAIN HexDigits : HexDigits[i] = ch) - 1
    ELSE (CHOOSE i \in DOMAIN HexUpper : HexUpper[i] = ch) + 9

Rgb(r, g, b) == [red |-> r, green |-> g, blue |-> b]

(* str::trim_start_matches("#") *)
RECURSIVE TrimHash(_)
TrimHash(c) ==
    IF Len(c) > 0 /\ c[1] = "#" THEN TrimHash(Tail(c)) ELSE c

(* c.get(a..b) followed by u8::from_str_radix(.., 16) for one channel *)
Channel(c, from) ==
    IF Len(c) < from + 1 THEN [ok |-> FALSE, err |-> "InvalidHex", val |-> 0]
    ELSE IF ~(IsHex(c[from]) /\ IsHex(c[from + 1]))
    THEN [ok |-> FALSE, err |-> "Parse", val |-> 0]
    ELSE [ok |-> TRUE, err |-> "none",
          val |-> 16 * HexVal(c[from]) + HexVal(c[from + 1])]

(* fn parse_color *)
parse_color(c) ==
    LET r == Channel(c, 1)
        g == Channel(c, 3)
        b == Channel(c, 5)
    IN IF ~r.ok THEN [ok |-> FALSE, err |-> r.err, val |-> Rgb(0, 0, 0)]
       ELSE IF ~g.ok THEN [ok |-> FALSE, err |-> g.err, val |-> Rgb(0, 0, 0)]
       ELSE IF ~b.ok THEN [ok |-> FALSE, err |-> b.err, val |-> Rgb(0, 0, 0)]
       ELSE [ok |-> TRUE, err |-> "none", val |-> Rgb(r.val, g.val, b.val)]

----------------------------------------------------------------------------
(* Colour mappings: HashMap<u8, Srgb<u8>> as a function on its key set.     *)

EmptyMap == [k \in {} |-> Rgb(0, 0, 0)]

Insert(hash, key, value) ==
    [k \in (DOMAIN hash) \cup {key} |-> IF k = key THEN value ELSE hash[k]]

OkMap(h) == [ok |-> TRUE, err |-> "none", val |-> h]

ErrMap(e) == [ok |-> FALSE, err |-> e, val |-> EmptyMap]

PanicMap == ErrMap("panic")

(* the map after inserting (x, x, x) for each of the first n zones *)
GreyInserts(luma_zones, n) ==
    [k \in {luma_zones[i] : i \in 1..n} |-> Rgb(k, k, k)]

(* get_greyscale_hashmap without the insert of the last zone *)
get_greyscale_hashmap_no_last(luma_zones) ==
    IF Len(luma_zones) = 0 THEN EmptyMap
    ELSE GreyInserts(luma_zones, Len(luma_zones) - 1)

(* fn get_greyscale_hashmap *)
get_greyscale_hashmap(luma_zones) ==
    IF Len(luma_zones) = 0 THEN EmptyMap
    ELSE Insert(GreyInserts(luma_zones, Len(luma_zones) - 1),
                luma_zones[Len(luma_zones)], Rgb(255, 255, 255))

(* get_custom_greyscale_hashmap whitening the last zone as the even split  *)
(* does                                                                    *)
get_custom_greyscale_hashmap_white(luma_zones) ==
    IF Len(luma_zones) = 0 THEN EmptyMap
    ELSE Insert(GreyInserts(luma_zones, Len(luma_zones) - 1),
                luma_zones[Len(luma_zones)], Rgb(255, 255, 255))

(* fn get_custom_greyscale_hashmap *)
get_custom_greyscale_hashmap(luma_zones) ==
    GreyInserts(luma_zones, Len(luma_zones))

(* the zip loop of get_color_hashmap over the first n pairs *)
RECURSIVE ColorZip(_, _, _)
ColorZip(colors, luma_zones, n) ==
    IF n = 0 THEN OkMap(EmptyMap)
    ELSE LET prev == ColorZip(colors, luma_zones, n - 1)
             c == parse_color(TrimHash(colors[n]))
         IN IF ~prev.ok THEN prev
            ELSE IF ~c.ok THEN ErrMap(c.err)
            ELSE OkMap(Insert(prev.val, luma_zones[n], c.val))

(* fn get_color_hashmap: zip stops at the shorter of the two *)
get_color_hashmap(colors, luma_zones) ==
    ColorZip(colors, luma_zones,
             IF Len(colors) < Len(luma_zones) THEN Len(colors)
             ELSE Len(luma_zones))

(* the loop of get_color_hashmap_custom from zone i on *)
RECURSIVE CustomColorLoop(_, _, _, _, _, _)
CustomColorLoop(colors, luma_zones, i, counter, curr, hash) ==
    IF i > Len(luma_zones) THEN OkMap(hash)
    ELSE LET changed == luma_zones[i] # curr
             counter2 == IF changed THEN counter + 1 ELSE counter
             curr2 == IF changed THEN luma_zones[i] ELSE curr
         IN IF counter2 + 1 > Len(colors) THEN PanicMap
            ELSE LET c == parse_color(TrimHash(colors[counter2 + 1]))
                 IN IF ~c.ok THEN ErrMap(c.err)
                    ELSE CustomColorLoop(colors, luma_zones, i + 1, counter2,
                                         curr2,
                                         Insert(hash, luma_zones[i], c.val))

(* fn get_color_hashmap_custom: `luma_zones[0]` panics on an empty slice *)
get_color_hashmap_custom(colors, luma_zones) ==
    IF Len(luma_zones) = 0 THEN PanicMap
    ELSE CustomColorLoop(colors, luma_zones, 1, 0, luma_zones[1], EmptyMap)

----------------------------------------------------------------------------
(* Bucket resolver.                                                        *)

(* get_threshold_key comparing with `<` instead of `<=` *)
get_threshold_key_strict(in_color, vec) ==
    IF Len(vec) = 0 THEN [ok |-> FALSE, val |-> 0]
    ELSE LET stops == {i \in 1..Len(vec) : in_color < vec[i]}
             key == IF stops = {} THEN vec[Len(vec)]
                    ELSE IF SetMin(stops) = 1 THEN vec[1]
                    ELSE vec[SetMin(stops) - 1]
         IN [ok |-> TRUE, val |-> key]

(* fn get_threshold_key: `luma_vec[0]` panics on an empty slice; the scan  *)
(* returns at the first element i with in_color <= i, and key is then the  *)
(* element before it (the first element when there is none before)         *)
get_threshold_key(in_color, vec) ==
    IF Len(vec) = 0 THEN [ok |-> FALSE, val |-> 0]
    ELSE LET stops == {i \in 1..Len(vec) : in_color <= vec[i]}
             key == IF stops = {} THEN vec[Len(vec)]
                    ELSE IF SetMin(stops) = 1 THEN vec[1]
                    ELSE vec[SetMin(stops) - 1]
         IN [ok |-> TRUE, val |-> key]

----------------------------------------------------------------------------
(* run, lines 71-202.                                                      *)

MismatchMsg == "Error: Number of values and colors do not match."

SaveMsg == "Error: save failed."

(* lines 93-98 and 105-110: the custom boundary sequence, with keep mode   *)
CustomThreshold(o, values_len) ==
    LET custom == luma_threshold_custom(o.values)
    IN IF ~o.keep
       THEN [ok |-> custom.ok, val |-> custom.val, temp |-> <<>>]
       ELSE IF ~custom.ok THEN [ok |-> FALSE, val |-> <<>>, temp |-> <<>>]
       ELSE LET kept == luma_threshold_keep(custom.val, values_len)
            IN [ok |-> kept.ok, val |-> kept.val, temp |-> custom.val]

Outcome(res, err, msgs, vec, temp, colors) ==
    [result |-> res, error |-> err, stderr |-> msgs, luma_vec |-> vec,
     temp_luma_vec |-> temp, generated_colors |-> colors]

Panicked == Outcome("Panic", "none", <<>>, <<>>, <<>>, EmptyMap)

(* a threshold result t and a colour mapping result m, after the `?` *)
Built(t, temp, m) ==
    IF m.ok THEN Outcome("running", "none", <<>>, t, temp, m.val)
    ELSE IF m.err = "panic" THEN Panicked
    ELSE Outcome("Err", m.err, <<>>, t, temp, EmptyMap)

(* lines 77-118: the match on values_len *)
BuildOutcome(o) ==
    LET values_len == Len(o.values) % U8
        colors_len == Len(o.colors) % U8
    IN IF values_len = 0
       THEN IF colors_len = 0
            THEN LET t == luma_threshold(o.num_steps)
                 IN IF ~t.ok THEN Panicked
                    ELSE Built(t.val, <<>>,
                               OkMap(get_greyscale_hashmap(t.val)))
            ELSE LET t == luma_threshold(colors_len)
                 IN IF ~t.ok THEN Panicked
                    ELSE Built(t.val, <<>>,
                               get_color_hashmap(o.colors, t.val))
       ELSE IF values_len \in MinValues..MaxValues
       THEN IF colors_len = 0
            THEN LET t == CustomThreshold(o, values_len)
                 IN IF ~t.ok THEN Panicked
                    ELSE Built(t.val, t.temp,
                               OkMap(get_custom_greyscale_hashmap(t.val)))
            ELSE IF values_len # colors_len
            THEN Outcome("Ok", "none", <<MismatchMsg>>, <<>>, <<>>, EmptyMap)
            ELSE LET t == CustomThreshold(o, values_len)
                 IN IF ~t.ok THEN Panicked
                    ELSE Built(t.val, t.temp,
                               get_color_hashmap_custom(o.colors, t.val))
       ELSE Panicked

(* lines 71-122: derive the boundary sequence and the colour mapping *)
Build ==
    /\ pc = "build"
    /\ LET b == BuildOutcome(opt)
       IN /\ luma_vec' = b.luma_vec
          /\ temp_luma_vec' = b.temp_luma_vec
          /\ generated_colors' = b.generated_colors
          /\ result' = b.result
          /\ error' = b.error
          /\ stderr' = b.stderr
          /\ pc' = IF b.result = "running" THEN "open" ELSE "done"
    /\ UNCHANGED <<opt, file_idx, imgbuf, outbuf, luma, color_key, opened,
                   saved, failed>>

(* line 125: image::open(&file)?.to_rgb(); img is the luminance of each    *)
(* pixel of the decoded image                                              *)
OpenFile(Imgs) ==
    /\ pc = "open"
    /\ file_idx <= Len(opt.input)
    /\ \E decoded \in BOOLEAN :
         IF decoded
         THEN /\ \E img \in Imgs : imgbuf' = img
              /\ outbuf' = <<>>
              /\ opened' = opened \cup {file_idx}
              /\ pc' = "pixels"
              /\ UNCHANGED <<result, error, failed>>
         ELSE /\ result' = "Err"
              /\ error' = "Image"
              /\ failed' = failed \cup {file_idx}
              /\ pc' = "done"
              /\ UNCHANGED <<imgbuf, outbuf, opened>>
    /\ UNCHANGED <<opt, luma_vec, temp_luma_vec, generated_colors, stderr,
                   file_idx, luma, color_key, saved>>

(* lines 127-135: one iteration of the pixel loop *)
RemapPixel ==
    /\ pc = "pixels"
    /\ Len(outbuf) < Len(imgbuf)
    /\ LET v == imgbuf[Len(outbuf) + 1]
           k == get_threshold_key(v, luma_vec)
       IN /\ luma' = v
          /\ IF k.ok /\ k.val \in DOMAIN generated_colors
             THEN /\ color_key' = k.val
                  /\ outbuf' = Append(outbuf, generated_colors[k.val])
                  /\ UNCHANGED <<result, pc>>
             ELSE /\ color_key' = k.val
                  /\ result' = "Panic"
                  /\ pc' = "done"
                  /\ UNCHANGED outbuf
    /\ UNCHANGED <<opt, luma_vec, temp_luma_vec, generated_colors, error,
                   stderr, file_idx, imgbuf, opened, saved, failed>>

(* lines 137-198: after the pixel loop, the output name, the debug return, *)
(* imgbuf.save and the removal of a file that could not be written.  The   *)
(* output name is a function of the options and the clock and is not kept; *)
(* save_ok and remove_ok are the outcomes of imgbuf.save and of            *)
(* fs::remove_file                                                         *)
SaveFile ==
    /\ pc = "pixels"
    /\ Len(outbuf) = Len(imgbuf)
    /\ IF opt.debug
       THEN /\ result' = "Ok"
            /\ pc' = "done"
            /\ UNCHANGED <<error, stderr, file_idx, saved, failed>>
       ELSE \E save_ok \in BOOLEAN, remove_ok \in BOOLEAN :
              IF save_ok
              THEN /\ saved' = saved \cup {file_idx}
                   /\ file_idx' = file_idx + 1
                   /\ pc' = "open"
                   /\ UNCHANGED <<result, error, stderr, failed>>
              ELSE /\ stderr' = Append(stderr, SaveMsg)
                   /\ failed' = failed \cup {file_idx}
                   /\ IF remove_ok
                      THEN /\ file_idx' = file_idx + 1
                           /\ pc' = "open"
                           /\ UNCHANGED <<result, error>>
                      ELSE /\ result' = "Err"
                           /\ error' = "File"
                           /\ pc' = "done"
                           /\ UNCHANGED file_idx
                   /\ UNCHANGED saved
    /\ UNCHANGED <<opt, luma_vec, temp_luma_vec, generated_colors, imgbuf,
                   outbuf, luma, color_key, opened>>

(* line 201: the file loop is exhausted *)
Finish ==
    /\ pc = "open"
    /\ file_idx > Len(opt.input)
    /\ result' = "Ok"
    /\ pc' = "done"
    /\ UNCHANGED <<opt, luma_vec, temp_luma_vec, generated_colors, error,
                   stderr, file_idx, imgbuf, outbuf, luma, color_key, opened,
                   saved, failed>>

----------------------------------------------------------------------------
(* Inputs: the options structopt can hand to run, and decoded images.      *)

RECURSIVE AscendingSeq(_)
AscendingSeq(S) ==
    IF S = {} THEN <<>>
    ELSE Append(AscendingSeq(S \ {SetMax(S)}), SetMax(S))

SeqsOver(S, lo, hi) == UNION {[1..n -> S] : n \in lo..hi}

GoodColor(i) ==
    LET body == <<HexDigits[i], HexDigits[i + 1], "0", HexDigits[i], "F",
                  HexUpper[(i % 6) + 1]>>
    IN IF i % 2 = 1 THEN <<"#">> \o body ELSE body

ShortColor == <<"#", "f", "f", "f">>

NonHexColor == <<"g", "g", "0", "0", "0", "0">>

GoodColors(n) == [i \in 1..n |-> GoodColor(i)]

ColorLists(n) ==
    {GoodColors(n),
     [i \in 1..n |-> IF i = n THEN ShortColor ELSE GoodColor(i)],
     [i \in 1..n |-> IF i = 1 THEN NonHexColor ELSE GoodColor(i)]}

Inputs(n) == {[i \in 1..k |-> i] : k \in 1..n}

Options(inputs, steps, values, colors, keeps, debugs) ==
    [input : inputs, num_steps : steps, values : values, colors : colors,
     keep : keeps, debug : debugs]

LumaSamples == {0, 255}

StepSamples == (0..16) \cup {50, 127, 128, 255}

SampleImages == SeqsOver(LumaSamples, 1, MaxPixels)

KeyImages == {<<v>> : v \in 0..255}

(* the state of run on entry *)
Start(opts) ==
    /\ opt \in opts
    /\ pc = "build"
    /\ luma_vec = <<>>
    /\ temp_luma_vec = <<>>
    /\ generated_colors = EmptyMap
    /\ result = "running"
    /\ error = "none"
    /\ stderr = <<>>
    /\ file_idx = 1
    /\ imgbuf = <<>>
    /\ outbuf = <<>>
    /\ luma = 0
    /\ color_key = 0
    /\ opened = {}
    /\ saved = {}
    /\ failed = {}

(* several files, a few options of every kind *)
RunOptions ==
    Options(Inputs(MaxFiles), {0, 1, 2, 5, 12}, {<<>>}, {<<>>},
            {FALSE}, BOOLEAN)
    \cup Options(Inputs(MaxFiles), {5}, {<<>>},
                 ColorLists(2) \cup ColorLists(3), {FALSE}, BOOLEAN)
    \cup Options(Inputs(MaxFiles), {5}, SeqsOver({0, 5, 11}, 2, 3),
                 {<<>>} \cup ColorLists(2) \cup {GoodColors(3)},
                 BOOLEAN, BOOLEAN)

Init == Start(RunOptions)

Next ==
    \/ Build
    \/ OpenFile(SampleImages)
    \/ RemapPixel
    \/ SaveFile
    \/ Finish

Spec == Init /\ [][Next]_vars

(* one file, every threshold configuration *)
ThresholdOptions ==
    Options(Inputs(1), StepSamples, {<<>>}, {<<>>}, BOOLEAN, {FALSE})
    \cup Options(Inputs(1), {5}, {<<>>},
                 {GoodColors(n) : n \in MinValues..MaxValues}, {FALSE},
                 {FALSE})
    \cup Options(Inputs(1), {5},
                 {AscendingSeq(S) :
                    S \in {T \in SUBSET (0..10) : Cardinality(T) >= 2}},
                 {<<>>}, BOOLEAN, {FALSE})
    \cup UNION {Options(Inputs(1), {5}, {v}, {<<>>, GoodColors(Len(v))},
                        BOOLEAN, {FALSE}) :
                v \in SeqsOver({0, 1, 5, 10, 11, 255}, 2, 3)
                      \cup {[i \in 1..MaxValues |-> 4],
                            [i \in 1..MaxValues |-> 255 - i],
                            [i \in 1..MaxValues |-> (7 * i) % 13],
                            [i \in 1..MaxValues |-> i - 1]}}

InitThreshold == Start(ThresholdOptions)

SpecThreshold == InitThreshold /\ [][Next]_vars

(* one file of one pixel of any luminance, options of every kind *)
KeyOptions ==
    Options(Inputs(1), {1, 2, 5, 11, 12, 200, 255}, {<<>>}, {<<>>}, {FALSE},
            {FALSE})
    \cup Options(Inputs(1), {5}, {<<>>},
                 {GoodColors(2), GoodColors(5), GoodColors(11)}, {FALSE},
                 {FALSE})
    \cup UNION {Options(Inputs(1), {5}, {v}, {<<>>, GoodColors(Len(v))},
                        BOOLEAN, {FALSE}) :
                v \in {<<0, 5>>, <<5, 0>>, <<0, 10>>, <<9, 10>>, <<3, 200>>,
                       <<1, 5, 9>>, <<2, 2, 7>>, <<10, 4, 6, 11>>,
                       <<0, 1, 2, 3, 4, 5, 6, 7, 8, 9, 10>>,
                       <<3, 3, 3, 3, 3, 3, 3, 3, 3, 3, 8>>}}

InitKey == Start(KeyOptions)

NextKey ==
    \/ Build
    \/ OpenFile(KeyImages)
    \/ RemapPixel
    \/ SaveFile
    \/ Finish

SpecKey == InitKey /\ [][NextKey]_vars

----------------------------------------------------------------------------
(* Properties.                                                             *)

White == Rgb(255, 255, 255)

Grey(b) == Rgb(b, b, b)

(* the levels the user asked for, after clamping to 10 *)
ClampedLevels == {IF v < 11 THEN v ELSE 10 : v \in Range(opt.values)}

Mismatch ==
    Len(opt.values) # 0 /\ Len(opt.colors) # 0
    /\ Len(opt.values) # Len(opt.colors)

BuildPanicked == result = "Panic" /\ opened = {}

(* run derived a boundary sequence *)
Derived == pc # "build" /\ ~BuildPanicked /\ ~Mismatch

(* run derived a boundary sequence and a colour mapping *)
Mapped == Derived /\ ~(result = "Err" /\ opened = {} /\ failed = {})

(* the pixel loop resolved a key and looked it up *)
PixelAttempted == Len(outbuf) > 0 \/ (result = "Panic" /\ opened # {})

(* the output of luma_threshold_custom in a run with values *)
CustomOut == IF opt.keep THEN temp_luma_vec ELSE luma_vec

(* C1, as stated: the key of luminance v is the first boundary b in scan   *)
(* order with v <= b, and the last boundary when v exceeds every boundary. *)
C1_FirstBoundaryAtLeast ==
    PixelAttempted =>
        LET stops == {i \in 1..Len(luma_vec) : luma <= luma_vec[i]}
        IN color_key = IF stops = {} THEN luma_vec[Len(luma_vec)]
                       ELSE luma_vec[SetMin(stops)]

(* C1, amended: the key of luminance v is the largest boundary value that  *)
(* is strictly below v, and the first boundary when no boundary is below v;*)
(* a luminance equal to a boundary b belongs to the boundary before b.     *)
C1_LargestBoundaryBelow ==
    PixelAttempted =>
        LET below == {b \in Range(luma_vec) : b < luma}
        IN color_key = IF below = {} THEN luma_vec[1] ELSE SetMax(below)

C1_Witness ==
    /\ PixelAttempted
    /\ luma_vec = <<0, 127>>
    /\ luma = 127
    /\ color_key = 0

(* C2: for every accepted configuration and every luminance the resolved   *)
(* key is a value of luma_vec and a key of the colour mapping, so the      *)
(* lookup in the pixel loop never misses.                                  *)
C2_KeyAlwaysResolves ==
    PixelAttempted =>
        /\ color_key \in Range(luma_vec)
        /\ color_key \in DOMAIN generated_colors
        /\ result # "Panic"
        /\ outbuf[Len(outbuf)] = generated_colors[color_key]

C2_Witness ==
    /\ PixelAttempted
    /\ opt.keep
    /\ opt.values = <<10, 4, 6, 11>>
    /\ Len(opt.colors) = 4
    /\ luma = 255
    /\ color_key = 126

C4_EvenSplit ==
    LET n == IF opt.colors = <<>> THEN opt.num_steps ELSE Len(opt.colors)
    IN (Derived /\ opt.values = <<>> /\ n \in 1..11) =>
        /\ Len(luma_vec) = n
        /\ \A i \in 0..(n - 1) : luma_vec[i + 1] = i * (255 \div n)
        /\ luma_vec[1] = 0
        /\ \A i \in 1..(n - 1) : luma_vec[i] < luma_vec[i + 1]

C4_Witness ==
    /\ Derived
    /\ opt.values = <<>>
    /\ opt.colors = <<>>
    /\ opt.num_steps = 11
    /\ luma_vec[11] = 230

(* C5: in keep mode the number of distinct values of the boundary sequence *)
(* equals the number of distinct clamped levels supplied, and no value     *)
(* wraps around 8 bits: each is (rank of its group) * floor(255 / count).  *)
C5_KeepBucketCount ==
    (Derived /\ opt.values # <<>> /\ opt.keep) =>
        /\ Cardinality(Range(luma_vec)) = Cardinality(ClampedLevels)
        /\ Len(luma_vec) = Len(temp_luma_vec)
        /\ \A i \in 1..Len(luma_vec) :
              LET rank == Cardinality({b \in Range(temp_luma_vec) :
                                         b < temp_luma_vec[i]})
              IN /\ luma_vec[i] = rank * (255 \div Len(opt.values))
                 /\ rank * (255 \div Len(opt.values)) < U8

C5_Witness ==
    /\ Derived
    /\ opt.keep
    /\ opt.values = <<0, 5, 11>>
    /\ Range(luma_vec) = {0, 85, 170}

(* C6, as stated: when values and colors are both supplied and differ in   *)
(* count, run ends with a Configuration Mismatch error, and no image was   *)
(* decoded, remapped or written.                                           *)
C6_MismatchIsError ==
    (pc = "done" /\ Mismatch) =>
        /\ result = "Err"
        /\ error = "ConfigMismatch"
        /\ opened = {}
        /\ saved = {}
        /\ outbuf = <<>>

(* C7, as stated: an IO failure on one file is confined to that file;      *)
(* every later file is still opened, remapped and saved (or fails itself). *)
C7_FailureIsolated ==
    (pc = "done" /\ ~opt.debug) =>
        \A i \in failed : \A j \in (i + 1)..Len(opt.input) :
            j \in opened \cup failed

(* C8, as stated: every boundary sequence run derives has length 1 to 11   *)
(* and is sorted ascending.                                                *)
C8_LengthAndOrder ==
    Derived =>
        /\ Len(luma_vec) >= 1
        /\ Len(luma_vec) <= 11
        /\ IsAscending(luma_vec)

(* C9: with clamped distinct levels l0 < l1 < ... luma_threshold_custom    *)
(* returns 11 slots, slot i being 23 * l0 when i < l1 and otherwise 23 *   *)
(* the largest level <= i; it is non-decreasing, steps exactly at the slot *)
(* indices l1.. and has as many distinct values as there are levels.       *)
C9_CustomSlots ==
    (Derived /\ opt.values # <<>>) =>
        LET l0 == SetMin(ClampedLevels)
            l1 == SetMin(ClampedLevels \ {l0})
        IN /\ Len(CustomOut) = 11
           /\ \A i \in 0..10 :
                 CustomOut[i + 1] =
                     23 * (IF i < l1 THEN l0
                           ELSE SetMax({l \in ClampedLevels : l <= i}))
           /\ IsAscending(CustomOut)
           /\ {i \in 1..10 : CustomOut[i + 1] # CustomOut[i]}
                  = ClampedLevels \ {l0}
           /\ Cardinality(Range(CustomOut)) = Cardinality(ClampedLevels)

C9_Witness ==
    /\ Derived
    /\ ~opt.keep
    /\ opt.values = <<1, 5, 9>>
    /\ luma_vec = <<23, 23, 23, 23, 23, 115, 115, 115, 115, 207, 207>>

(* C10, as stated: for every list of 2 to 11 supplied values               *)
(* luma_threshold_custom completes without a panic and returns a boundary  *)
(* sequence.                                                               *)
C10_CustomNeverPanics ==
    (pc # "build" /\ Len(opt.values) \in MinValues..MaxValues /\ ~Mismatch) =>
        /\ ~BuildPanicked
        /\ Len(CustomOut) = LEN

====
